---- MODULE Spec2Model ----
(***************************************************************************)
(* The system router of umbreld: the update flow (update), the two status  *)
(* registers (systemStatus, updateStatus), the power operations (shutdown, *)
(* restart) and factoryReset.                                              *)
(***************************************************************************)
EXTENDS Integers, Sequences, FiniteSets, TLC

(***************************************************************************)
(* Bounds of the model.                                                    *)
(***************************************************************************)
\* dots one update attempt counts in the lifecycle specification
MaxDots == 2
\* atoms of one chunk in the output specification
MaxChunkLen == 3
\* atoms of one chunk in the dot-progress specification
MaxDotChunkLen == 2
\* atoms of the whole output of the subprocess in the output specification
MaxOutputLen == 4
\* dot lines of one attempt in the dot-progress specification
MaxDotLines == 141
\* progress steps of the asynchronous reset procedure
MaxResetSteps == 2
\* dot lines of one attempt in the streams specification
MaxStreamDots == 4

(***************************************************************************)
(* JavaScript values.  The error field is `boolean | string`: the boolean  *)
(* false is written JsFalse, every other value of the field is a message.  *)
(***************************************************************************)
JsFalse == "false"

\* !value of JavaScript, for the values of the error field
Truthy(e) == e # JsFalse /\ e # ""

\* type SystemStatus
SystemStatus == {"running", "updating", "shutting-down", "restarting", "migrating"}

\* the fields of type UpdateStatus
Fields == {"running", "progress", "description", "error"}

\* the two requests of the update mutation that may be in flight together
Calls == {"a", "b"}

(***************************************************************************)
(* IEEE-754 binary64, for Math.floor((menderInstallDots / 70) * 90).       *)
(* A positive double is [hi, mid, lo, e]: its 53-bit significand is        *)
(* hi * Limb^2 + mid * Limb + lo, in three limbs of 17, 18 and 18 bits     *)
(* (TLC's integers are 32 bits wide), and its value is                     *)
(* significand * 2^(e - 52).                                               *)
(***************************************************************************)
Limb == 512 * 512
TopLimb == 256 * 512

RECURSIVE Pow2(_)
Pow2(n) == IF n = 0 THEN 1 ELSE 2 * Pow2(n - 1)

\* the largest e >= 0 with d * 2^e <= n (for n >= d)
RECURSIVE ExpUp(_, _)
ExpUp(n, d) == IF 2 * d <= n THEN 1 + ExpUp(n, 2 * d) ELSE 0

\* the smallest s >= 0 with n * 2^s >= d
RECURSIVE ExpDown(_, _)
ExpDown(n, d) == IF n >= d THEN 0 ELSE 1 + ExpDown(2 * n, d)

\* the smallest s >= 0 with a < TopLimb * 2^s
RECURSIVE ExcessBits(_)
ExcessBits(a) == IF a < TopLimb THEN 0 ELSE 1 + ExcessBits(a \div 2)

\* the next double above x (the significand plus one unit in the last place)
NextUp(x) ==
    IF x.lo + 1 < Limb THEN [x EXCEPT !.lo = x.lo + 1]
    ELSE IF x.mid + 1 < Limb THEN [x EXCEPT !.lo = 0, !.mid = x.mid + 1]
    ELSE IF x.hi + 1 < TopLimb THEN [x EXCEPT !.lo = 0, !.mid = 0, !.hi = x.hi + 1]
    ELSE [hi |-> TopLimb \div 2, mid |-> 0, lo |-> 0, e |-> x.e + 1]

\* round to nearest, ties to even: x is the exact value truncated to 53 bits,
\* guard its first dropped bit, sticky whether a nonzero bit follows the guard
RoundNearestEven(x, guard, sticky) ==
    IF guard /\ (sticky \/ x.lo % 2 = 1) THEN NextUp(x) ELSE x

\* the double n / d, for positive integers n, d < 2^13 (they are exact doubles)
Float64Div(n, d) ==
    LET e == IF n >= d THEN ExpUp(n, d) ELSE 0 - ExpDown(n, d)
        nn == IF e < 0 THEN n * Pow2(0 - e) ELSE n
        dd == IF e > 0 THEN d * Pow2(e) ELSE d
        hi == (nn * (TopLimb \div 2)) \div dd
        r1 == (nn * (TopLimb \div 2)) % dd
        mid == (r1 * Limb) \div dd
        r2 == (r1 * Limb) % dd
        lo == (r2 * Limb) \div dd
        r3 == (r2 * Limb) % dd
    IN  RoundNearestEven([hi |-> hi, mid |-> mid, lo |-> lo, e |-> e],
                         2 * r3 >= dd, (2 * r3) % dd # 0)

\* the double x * c, for a double x and an integer c in 1..127 (an exact double)
Float64Mul(x, c) ==
    LET p0 == x.lo * c
        p1 == x.mid * c + (p0 \div Limb)
        a0 == p0 % Limb
        a1 == p1 % Limb
        a2 == x.hi * c + (p1 \div Limb)
        s == ExcessBits(a2)
        P == Pow2(s)
        Q == Limb \div P
        rem == a0 % P
        t == [hi |-> a2 \div P,
              mid |-> (a1 \div P) + (a2 % P) * Q,
              lo |-> (a0 \div P) + (a1 % P) * Q,
              e |-> x.e + s]
    IN  IF s = 0 THEN [hi |-> a2, mid |-> a1, lo |-> a0, e |-> x.e]
        ELSE RoundNearestEven(t, 2 * rem >= P, (2 * rem) % P # 0)

\* Math.floor of a positive double below 2^17
MathFloor(x) == IF x.e < 0 THEN 0 ELSE x.hi \div Pow2(16 - x.e)

MathMin(a, b) == IF a <= b THEN a ELSE b

\* Math.min(95, Math.floor((menderInstallDots / 70) * 90) + 5), menderInstallDots >= 1
DotProgress(dots) == MathMin(95, MathFloor(Float64Mul(Float64Div(dots, 70), 90)) + 5)


(***************************************************************************)
(* The status registers.                                                   *)
(***************************************************************************)
\* the record resetUpdateStatus() assigns
IdleStatus == [running |-> FALSE, progress |-> 0, description |-> "", error |-> JsFalse]

\* a write that merges the properties into the idle record instead of the current one
setUpdateStatusOntoIdle(status, properties) ==
    [f \in DOMAIN status \cup DOMAIN properties |->
        IF f \in DOMAIN properties THEN properties[f] ELSE IdleStatus[f]]

\* setUpdateStatus: {...updateStatus, ...properties}
setUpdateStatus(status, properties) ==
    [f \in DOMAIN status \cup DOMAIN properties |->
        IF f \in DOMAIN properties THEN properties[f] ELSE status[f]]

(***************************************************************************)
(* The output of the update script.  A text is a sequence of atoms: the    *)
(* newline, the dot, the marker, and payloads that are never cut.          *)
(***************************************************************************)
Newline == "\n"
Dot == "."
Marker == "umbrel-update: "
NotJson == "not-json"
JProgress == "{\"progress\":42}"
JError == "{\"error\":\"disk full\"}"
JNoError == "{\"error\":false}"
JRunning == "{\"running\":false}"
JOverflow == "{\"progress\":250}"

\* JSON.parse of the payloads that are JSON texts
JsonValue ==
    (JProgress :> [progress |-> 42]) @@ (JError :> [error |-> "disk full"])
    @@ (JNoError :> [error |-> JsFalse]) @@ (JRunning :> [running |-> FALSE])
    @@ (JOverflow :> [progress |-> 250])

Atoms == {Newline, Dot, Marker, NotJson} \cup DOMAIN JsonValue

\* the texts of 1..n atoms over the alphabet S
TextsUpTo(S, n) == UNION {[1..k -> S] : k \in 1..n}

\* JSON.parse(text) does not throw: over Atoms, the only concatenations that are
\* JSON texts are the single JSON payloads
IsJson(text) == Len(text) = 1 /\ text[1] \in DOMAIN JsonValue

JSONparse(text) == JsonValue[text[1]]

\* text.split('\n')
RECURSIVE Split(_)
Split(text) ==
    IF \A i \in 1..Len(text) : text[i] # Newline THEN <<text>>
    ELSE LET i == CHOOSE k \in 1..Len(text) :
                      text[k] = Newline /\ \A j \in 1..(k - 1) : text[j] # Newline
         IN  <<SubSeq(text, 1, i - 1)>> \o Split(SubSeq(text, i + 1, Len(text)))

\* line.startsWith('umbrel-update: ')
StartsWithMarker(line) == Len(line) >= 1 /\ line[1] = Marker

\* line.replace('umbrel-update: ', ''), for a line that starts with the marker
Payload(line) == SubSeq(line, 2, Len(line))

\* a catch that reports the parse error as the failure of the update
StatusLineFailing(st, line) ==
    IF IsJson(Payload(line))
    THEN [st EXCEPT !.status = setUpdateStatus(st.status, JSONparse(Payload(line)))]
    ELSE [st EXCEPT !.status = setUpdateStatus(st.status, [error |-> "Update failed"])]

\* the try/catch of a line that starts with the marker; st is [status, dots]
StatusLine(st, line) ==
    IF IsJson(Payload(line))
    THEN [st EXCEPT !.status = setUpdateStatus(st.status, JSONparse(Payload(line)))]
    ELSE st

\* if (line === '.') {...}
DotLine(st) ==
    [status |-> setUpdateStatus(st.status, [progress |-> DotProgress(st.dots + 1)]),
     dots |-> st.dots + 1]

\* the body of the loop over the lines
HandleLine(st, line) ==
    LET s1 == IF StartsWithMarker(line) THEN StatusLine(st, line) ELSE st
    IN  IF line = <<Dot>> THEN DotLine(s1) ELSE s1

RECURSIVE HandleLines(_, _)
HandleLines(st, lines) ==
    IF lines = <<>> THEN st
    ELSE HandleLines(HandleLine(st, Head(lines)), Tail(lines))

\* handleUpdateScriptOutput(chunk), on st = [status |-> updateStatus, dots |-> menderInstallDots]
handleUpdateScriptOutput(st, chunk) == HandleLines(st, Split(chunk))


(***************************************************************************)
(* The state.                                                              *)
(***************************************************************************)
VARIABLES
    systemStatus,          \* let systemStatus
    updateStatus,          \* let updateStatus
    pc,                    \* per update call: the await it is suspended at
    menderInstallDots,     \* per update call: let menderInstallDots
    result,                \* per update call: what the call gave its caller
    log,                   \* per update call: the steps it has taken, in order
    lastError,             \* per update call: the error of the last merged line that had one
    sawError,              \* per update call: a merged line has set a truthy error
    power,                 \* per power operation (shutdown, restart): its position
    stopped,               \* umbreld.stop() has completed
    osCommands,            \* the power commands issued to the operating system
    out,                   \* the output delivered so far (output specification)
    lastChunk,             \* the chunk delivered last (output specification)
    before,                \* status and dots before the last chunk (output specification)
    delivered,             \* per stream: the '.' lines delivered on it (streams specification)
    resetPc,               \* the factoryReset call: its position
    resetResult,           \* the factoryReset call: the snapshot it returned
    factoryResetDemoState  \* the progress of the reset procedure, <<>> for undefined

vars == <<systemStatus, updateStatus, pc, menderInstallDots, result, log, lastError,
          sawError, power, stopped, osCommands, out, lastChunk, before, delivered,
          resetPc, resetResult, factoryResetDemoState>>

callVars == <<pc, menderInstallDots, result, log, lastError, sawError>>
outVars == <<out, lastChunk, before, delivered>>
envVars == <<power, stopped, osCommands>>
resetVars == <<resetPc, resetResult, factoryResetDemoState>>

PowerOps == {"shutdown", "restart"}

\* process.stdout and process.stderr
Streams == {"stdout", "stderr"}

\* the chunks of the update specification: one of each kind of line, the payloads
\* with values of the declared types
ScriptChunks ==
    {<<Dot>>, <<Dot, Newline>>, <<NotJson, Newline>>, <<Marker, NotJson, Newline>>}
    \cup {<<Marker, j, Newline>> : j \in DOMAIN JsonValue \ {JOverflow}}

\* the chunks of the attempt specification: every payload
AttemptChunks == ScriptChunks \cup {<<Marker, JOverflow, Newline>>}

Init ==
    /\ systemStatus = "running"
    /\ updateStatus = IdleStatus
    /\ pc = [c \in Calls |-> "idle"]
    /\ menderInstallDots = [c \in Calls |-> 0]
    /\ result = [c \in Calls |-> "none"]
    /\ log = [c \in Calls |-> <<>>]
    /\ lastError = [c \in Calls |-> "none"]
    /\ sawError = [c \in Calls |-> FALSE]
    /\ power = [o \in PowerOps |-> "idle"]
    /\ stopped = FALSE
    /\ osCommands = {}
    /\ out = <<>>
    /\ lastChunk = <<>>
    /\ before = [status |-> IdleStatus, dots |-> 0]
    /\ delivered = [s \in Streams |-> 0]
    /\ resetPc = "idle"
    /\ resetResult = <<>>
    /\ factoryResetDemoState = <<>>

(***************************************************************************)
(* update                                                                  *)
(***************************************************************************)
\* the catch block without its call of resetUpdateStatus()
CatchWithoutReset(status) ==
    LET s1 == IF ~Truthy(status.error)
              THEN [status EXCEPT !.error = "Update failed"]
              ELSE status
    IN  [s1 EXCEPT !.running = FALSE]

\* the catch block, up to the reset of updateStatus
Catch(status) ==
    LET s1 == IF ~Truthy(status.error)
              THEN setUpdateStatus(status, [error |-> "Update failed"])
              ELSE status
        errorStatus == s1.error
    IN  setUpdateStatus(IdleStatus, [error |-> errorStatus])

Logged(c, events) == log' = [log EXCEPT ![c] = @ \o events]

\* a catch block that is suspended before it assigns systemStatus
FailSuspended(c, status, event) ==
    /\ updateStatus' = Catch(status)
    /\ pc' = [pc EXCEPT ![c] = "done"]
    /\ result' = [result EXCEPT ![c] = "false"]
    /\ Logged(c, <<event, "reset", "return false">>)
    /\ UNCHANGED <<systemStatus, menderInstallDots, lastError, sawError, envVars, outVars,
                   resetVars>>

\* the catch block of call c, entered with updateStatus = status
Fail(c, status, event) ==
    /\ updateStatus' = Catch(status)
    /\ systemStatus' = "running"
    /\ pc' = [pc EXCEPT ![c] = "done"]
    /\ result' = [result EXCEPT ![c] = "false"]
    /\ Logged(c, <<event, "reset", "return false">>)
    /\ UNCHANGED <<menderInstallDots, lastError, sawError, envVars, outVars, resetVars>>

\* a request arrives: the mutation runs up to await getLatestRelease()
UpdateStart(c) ==
    /\ pc[c] = "idle"
    /\ systemStatus' = "updating"
    /\ updateStatus' = setUpdateStatus(updateStatus,
           [running |-> TRUE, progress |-> 5, description |-> "Updating...", error |-> JsFalse])
    /\ pc' = [pc EXCEPT ![c] = "getLatestRelease"]
    /\ lastError' = [lastError EXCEPT ![c] = "none"]
    /\ sawError' = [sawError EXCEPT ![c] = FALSE]
    /\ Logged(c, <<"start">>)
    /\ UNCHANGED <<menderInstallDots, result, envVars, outVars, resetVars>>

\* the release data has an updateScript: fetch(updateScript) is awaited
Download(c, events) ==
    /\ pc' = [pc EXCEPT ![c] = "fetch"]
    /\ Logged(c, events)
    /\ UNCHANGED <<systemStatus, updateStatus, menderInstallDots, result,
                   lastError, sawError, envVars, outVars, resetVars>>

\* getLatestRelease() without the check of updateScript
ReleaseFetchedUnchecked(c, outcome) ==
    /\ pc[c] = "getLatestRelease"
    /\ CASE outcome = "failed" -> Fail(c, updateStatus, "release failed")
         [] outcome = "no script" -> Download(c, <<"no script", "download">>)
         [] outcome = "script" -> Download(c, <<"download">>)

\* getLatestRelease() settles: it threw, or gave data without or with updateScript
ReleaseFetched(c, outcome) ==
    /\ pc[c] = "getLatestRelease"
    /\ CASE outcome = "failed" -> Fail(c, updateStatus, "release failed")
         [] outcome = "no script" ->
                Fail(c, setUpdateStatus(updateStatus, [error |-> "No update script found"]),
                     "no script")
         [] outcome = "script" -> Download(c, <<"download">>)

\* fetch(updateScript) settles
ScriptFetched(c, ok) ==
    /\ pc[c] = "fetch"
    /\ IF ok
       THEN /\ pc' = [pc EXCEPT ![c] = "text"]
            /\ UNCHANGED <<systemStatus, updateStatus, menderInstallDots, result, log,
                           lastError, sawError, envVars, outVars, resetVars>>
       ELSE Fail(c, updateStatus, "download failed")

\* result.text() settles; on success the subprocess is launched and awaited
ScriptRead(c, ok) ==
    /\ pc[c] = "text"
    /\ IF ok
       THEN /\ pc' = [pc EXCEPT ![c] = "process"]
            /\ menderInstallDots' = [menderInstallDots EXCEPT ![c] = 0]
            /\ Logged(c, <<"spawn">>)
            /\ UNCHANGED <<systemStatus, updateStatus, result, lastError, sawError,
                           envVars, outVars, resetVars>>
       ELSE Fail(c, updateStatus, "download failed")

\* the error values of the merged lines of a chunk that carry an error field, in order
RECURSIVE LineErrors(_)
LineErrors(lines) ==
    IF lines = <<>> THEN <<>>
    ELSE LET line == Head(lines)
             here == IF StartsWithMarker(line) /\ IsJson(Payload(line))
                        /\ "error" \in DOMAIN JSONparse(Payload(line))
                     THEN <<JSONparse(Payload(line)).error>> ELSE <<>>
         IN  here \o LineErrors(Tail(lines))

\* a subprocess of which only the stdout listener is registered
ScriptOutputStdoutOnly(c, stream, chunk, maxDots) ==
    /\ pc[c] = "process"
    /\ LET st == IF stream = "stdout"
                 THEN handleUpdateScriptOutput(
                          [status |-> updateStatus, dots |-> menderInstallDots[c]], chunk)
                 ELSE [status |-> updateStatus, dots |-> menderInstallDots[c]]
       IN  /\ st.dots <= maxDots
           /\ updateStatus' = st.status
           /\ menderInstallDots' = [menderInstallDots EXCEPT ![c] = st.dots]
    /\ UNCHANGED <<systemStatus, pc, result, log, lastError, sawError, envVars, resetVars>>

\* a 'data' event of stdout or stderr of the subprocess of call c
ScriptOutput(c, stream, chunk, maxDots) ==
    /\ pc[c] = "process"
    /\ LET st == handleUpdateScriptOutput(
                     [status |-> updateStatus, dots |-> menderInstallDots[c]], chunk)
           errs == LineErrors(Split(chunk))
       IN  /\ st.dots <= maxDots
           /\ updateStatus' = st.status
           /\ menderInstallDots' = [menderInstallDots EXCEPT ![c] = st.dots]
           /\ lastError' = [lastError EXCEPT ![c] =
                                IF errs = <<>> THEN @ ELSE errs[Len(errs)]]
           /\ sawError' = [sawError EXCEPT ![c] =
                                @ \/ \E i \in 1..Len(errs) : Truthy(errs[i])]
    /\ UNCHANGED <<systemStatus, pc, result, log, envVars, resetVars>>

ExitEvent(code) == IF code = 0 THEN "exit 0" ELSE "exit non-zero"

\* the statements after the try/catch, up to await ctx.umbreld.stop()
Completed(c, code) ==
    /\ updateStatus' = setUpdateStatus(updateStatus, [progress |-> 95])
    /\ pc' = [pc EXCEPT ![c] = "stop"]
    /\ Logged(c, <<ExitEvent(code), "progress 95", "stop called">>)
    /\ UNCHANGED <<systemStatus, menderInstallDots, result, lastError, sawError,
                   envVars, outVars, resetVars>>

\* await process that never rejects, whatever the exit code
ProcessExitUnchecked(c, code) ==
    /\ pc[c] = "process"
    /\ Completed(c, code)

\* await process settles: the subprocess exited with code 0, or the promise rejected
ProcessExit(c, code) ==
    /\ pc[c] = "process"
    /\ IF code = 0
       THEN Completed(c, code)
       ELSE Fail(c, updateStatus, ExitEvent(code))

\* await ctx.umbreld.stop() settles; on success reboot() is called
UpdateStopped(c, ok) ==
    /\ pc[c] = "stop"
    /\ IF ok
       THEN /\ pc' = [pc EXCEPT ![c] = "reboot"]
            /\ stopped' = TRUE
            /\ osCommands' = osCommands \cup {"reboot"}
            /\ Logged(c, <<"stop done", "reboot issued">>)
            /\ UNCHANGED <<result, power>>
       ELSE /\ pc' = [pc EXCEPT ![c] = "done"]
            /\ result' = [result EXCEPT ![c] = "throw"]
            /\ Logged(c, <<"stop failed", "throw">>)
            /\ UNCHANGED <<stopped, osCommands, power>>
    /\ UNCHANGED <<systemStatus, updateStatus, menderInstallDots, lastError, sawError, outVars, resetVars>>

\* await reboot() settles
UpdateRebooted(c, ok) ==
    /\ pc[c] = "reboot"
    /\ pc' = [pc EXCEPT ![c] = "done"]
    /\ result' = [result EXCEPT ![c] = IF ok THEN "true" ELSE "throw"]
    /\ Logged(c, IF ok THEN <<"return true">> ELSE <<"reboot failed", "throw">>)
    /\ UNCHANGED <<systemStatus, updateStatus, menderInstallDots, lastError, sawError,
                   envVars, outVars, resetVars>>

\* the caller has its answer; the slot serves the next request
UpdateReturned(c) ==
    /\ pc[c] = "done"
    /\ pc' = [pc EXCEPT ![c] = "idle"]
    /\ result' = [result EXCEPT ![c] = "none"]
    /\ log' = [log EXCEPT ![c] = <<>>]
    /\ lastError' = [lastError EXCEPT ![c] = "none"]
    /\ sawError' = [sawError EXCEPT ![c] = FALSE]
    /\ UNCHANGED <<systemStatus, updateStatus, menderInstallDots, envVars, outVars, resetVars>>

(***************************************************************************)
(* shutdown, restart, setSystemStatus                                      *)
(***************************************************************************)
PowerStatus(o) == IF o = "shutdown" THEN "shutting-down" ELSE "restarting"
PowerCommand(o) == IF o = "shutdown" THEN "shutdown" ELSE "reboot"

\* a power operation that issues its command before it awaits ctx.umbreld.stop()
PowerStartIssuing(o) ==
    /\ power[o] = "idle"
    /\ systemStatus' = PowerStatus(o)
    /\ power' = [power EXCEPT ![o] = "stop"]
    /\ osCommands' = osCommands \cup {PowerCommand(o)}
    /\ UNCHANGED <<updateStatus, callVars, stopped, outVars, resetVars>>

\* a request arrives: the mutation runs up to await ctx.umbreld.stop()
PowerStart(o) ==
    /\ power[o] = "idle"
    /\ systemStatus' = PowerStatus(o)
    /\ power' = [power EXCEPT ![o] = "stop"]
    /\ UNCHANGED <<updateStatus, callVars, stopped, osCommands, outVars, resetVars>>

\* await ctx.umbreld.stop() settles; on success the power command is issued
PowerStopped(o, ok) ==
    /\ power[o] = "stop"
    /\ IF ok
       THEN /\ power' = [power EXCEPT ![o] = "command"]
            /\ stopped' = TRUE
            /\ osCommands' = osCommands \cup {PowerCommand(o)}
       ELSE /\ power' = [power EXCEPT ![o] = "throw"]
            /\ UNCHANGED <<stopped, osCommands>>
    /\ UNCHANGED <<systemStatus, updateStatus, callVars, outVars, resetVars>>

\* await shutdown() / await reboot() settles
PowerDone(o, ok) ==
    /\ power[o] = "command"
    /\ power' = [power EXCEPT ![o] = IF ok THEN "true" ELSE "throw"]
    /\ UNCHANGED <<systemStatus, updateStatus, callVars, stopped, osCommands, outVars, resetVars>>

\* the migration module calls setSystemStatus(status)
setSystemStatus(status) ==
    /\ systemStatus' = status
    /\ UNCHANGED <<updateStatus, callVars, envVars, outVars, resetVars>>

(***************************************************************************)
(* factoryReset, getFactoryResetStatus                                     *)
(***************************************************************************)
\* startReset(currentInstall) of factory-reset.js: the reset procedure starts in the
\* background and publishes its first progress snapshot
startReset == <<0>>

\* the reset procedure, running on its own, publishes its next progress snapshot
ResetProgress ==
    /\ factoryResetDemoState # <<>>
    /\ factoryResetDemoState[1] < MaxResetSteps
    /\ factoryResetDemoState' = <<factoryResetDemoState[1] + 1>>
    /\ UNCHANGED <<systemStatus, updateStatus, callVars, envVars, outVars, resetPc, resetResult>>

\* a request arrives: the mutation runs up to await ctx.user.validatePassword()
FactoryResetStart ==
    /\ resetPc = "idle"
    /\ resetPc' = "validatePassword"
    /\ resetResult' = <<>>
    /\ UNCHANGED <<systemStatus, updateStatus, callVars, envVars, outVars, factoryResetDemoState>>

\* a factoryReset that starts the reset before it looks at the validation
PasswordValidatedLate(valid) ==
    /\ resetPc = "validatePassword"
    /\ factoryResetDemoState' = startReset
    /\ IF valid
       THEN /\ resetResult' = factoryResetDemoState'
            /\ resetPc' = "returned"
       ELSE /\ resetPc' = "UNAUTHORIZED"
            /\ UNCHANGED resetResult
    /\ UNCHANGED <<systemStatus, updateStatus, callVars, envVars, outVars>>

\* validatePassword() settles: UNAUTHORIZED is thrown, or the reset is started and
\* factoryResetDemoState is returned
PasswordValidated(valid) ==
    /\ resetPc = "validatePassword"
    /\ IF valid
       THEN /\ factoryResetDemoState' = startReset
            /\ resetResult' = factoryResetDemoState'
            /\ resetPc' = "returned"
       ELSE /\ resetPc' = "UNAUTHORIZED"
            /\ UNCHANGED <<factoryResetDemoState, resetResult>>
    /\ UNCHANGED <<systemStatus, updateStatus, callVars, envVars, outVars>>

\* the caller has its answer; the next factoryReset request can arrive
FactoryResetReturned ==
    /\ resetPc \in {"returned", "UNAUTHORIZED"}
    /\ resetPc' = "idle"
    /\ UNCHANGED <<systemStatus, updateStatus, callVars, envVars, outVars,
                   resetResult, factoryResetDemoState>>

\* the query getFactoryResetStatus
getFactoryResetStatus == factoryResetDemoState

(***************************************************************************)
(* The update specification: two update requests interleaved at their      *)
(* awaits.                                                                 *)
(***************************************************************************)
Next ==
    \/ \E c \in Calls : UpdateStart(c)
    \/ \E c \in Calls, outcome \in {"failed", "no script", "script"} : ReleaseFetched(c, outcome)
    \/ \E c \in Calls, ok \in BOOLEAN : ScriptFetched(c, ok)
    \/ \E c \in Calls, ok \in BOOLEAN : ScriptRead(c, ok)
    \/ \E c \in Calls, stream \in {"stdout", "stderr"}, chunk \in ScriptChunks :
          ScriptOutput(c, stream, chunk, MaxDots) /\ UNCHANGED outVars
    \/ \E c \in Calls, code \in {0, 1} : ProcessExit(c, code)
    \/ \E c \in Calls, ok \in BOOLEAN : UpdateStopped(c, ok)
    \/ \E c \in Calls, ok \in BOOLEAN : UpdateRebooted(c, ok)
    \/ \E c \in Calls : UpdateReturned(c)

Spec == Init /\ [][Next]_vars

(***************************************************************************)
(* Properties of the update specification.                                 *)
(***************************************************************************)
Events(c) == {log[c][i] : i \in 1..Len(log[c])}

FailureEvents == {"release failed", "no script", "download failed", "exit non-zero"}

IsPrefix(p, q) == Len(p) <= Len(q) /\ SubSeq(q, 1, Len(p)) = p

\* the steps of an attempt that issues the reboot, in their order
SuccessLog ==
    <<"start", "download", "spawn", "exit 0", "progress 95", "stop called",
      "stop done", "reboot issued", "return true">>

\* C1: whenever an update attempt fails (release fetch, missing script, download,
\* non-zero exit), the call returns false and, at that moment, updateStatus is
\* exactly {running: false, progress: 0, description: '', error: e} with e truthy
\* and systemStatus is 'running'.
C1_FailedAttemptRecord ==
    [][\A c \in Calls :
          /\ (Events(c)' \cap FailureEvents # {} /\ Events(c) \cap FailureEvents = {})
                => result'[c] = "false"
          /\ (result[c] = "none" /\ result'[c] = "false")
                => /\ updateStatus' = [running |-> FALSE, progress |-> 0, description |-> "",
                                       error |-> updateStatus'.error]
                   /\ updateStatus'.error # JsFalse
                   /\ updateStatus'.error # ""
                   /\ updateStatus' # IdleStatus
                   /\ systemStatus' = "running"]_vars

\* an attempt whose script had set progress, running and an error has failed on a
\* non-zero exit, and the record holds only the error
C1_Witness ==
    \E c \in Calls :
        /\ result[c] = "false"
        /\ "exit non-zero" \in Events(c)
        /\ updateStatus = [running |-> FALSE, progress |-> 0, description |-> "",
                           error |-> "disk full"]
        /\ systemStatus = "running"

\* C2: within an attempt the reboot is issued only after exit code 0, in the order
\* exit, progress 95, stop() completes, reboot issued, return true; an attempt on
\* the failure path never calls stop() or reboot; an attempt on the success path
\* never resets updateStatus and never writes systemStatus, and 95 is the last
\* progress it writes.
C2_SuccessOrder ==
    /\ [](\A c \in Calls :
            /\ "reboot issued" \in Events(c) => IsPrefix(SubSeq(SuccessLog, 1, 8), log[c])
            /\ "reboot issued" \in Events(c) => "reboot" \in osCommands /\ stopped
            /\ "exit 0" \in Events(c) => IsPrefix(log[c], SuccessLog) \/ result[c] = "throw"
            /\ result[c] = "true" <=> log[c] = SuccessLog
            /\ "exit 0" \in Events(c) => "reset" \notin Events(c)
            /\ "return false" \in Events(c)
                  => Events(c) \cap {"stop called", "stop done", "reboot issued"} = {})
    /\ [][\A c \in Calls :
            /\ (pc[c] = "process" /\ pc'[c] = "stop")
                  => /\ updateStatus' = [updateStatus EXCEPT !.progress = 95]
                     /\ systemStatus' = systemStatus
            /\ (pc[c] \in {"stop", "reboot"} /\ pc'[c] # pc[c])
                  => /\ updateStatus' = updateStatus
                     /\ systemStatus' = systemStatus]_vars

\* an attempt has returned true after the reboot was issued, with nothing else
\* having run: progress is 95 and systemStatus is still 'updating'
C2_Witness ==
    \E c \in Calls :
        /\ result[c] = "true"
        /\ log[c] = SuccessLog
        /\ "reboot" \in osCommands
        /\ updateStatus.progress = 95
        /\ systemStatus = "updating"

\* C3: when the subprocess exits non-zero, the final error is the truthy error of the
\* last structured line that carried an error field, and 'Update failed' if no
\* structured line set a truthy error during the attempt.
C3_ErrorPreserved ==
    [][\A c \in Calls :
          (pc[c] = "process" /\ result'[c] = "false")
             => /\ (lastError[c] # "none" /\ Truthy(lastError[c]))
                    => updateStatus'.error = lastError[c]
                /\ ~sawError[c] => updateStatus'.error = "Update failed"]_vars

\* C4: release data without updateScript: the attempt fails without download,
\* subprocess, stop() or reboot; it returns false with error 'No update script
\* found' and systemStatus 'running'.
C4_MissingScript ==
    /\ [](\A c \in Calls :
            "no script" \in Events(c)
               => log[c] = <<"start", "no script", "reset", "return false">>)
    /\ [][\A c \in Calls :
            ("no script" \in Events(c)' /\ "no script" \notin Events(c))
               => /\ result'[c] = "false"
                  /\ updateStatus'.error = "No update script found"
                  /\ systemStatus' = "running"
                  /\ UNCHANGED <<stopped, osCommands>>]_vars

\* an attempt has ended on the missing script
C4_Witness ==
    \E c \in Calls :
        /\ "no script" \in Events(c)
        /\ result[c] = "false"
        /\ updateStatus.error = "No update script found"
        /\ systemStatus = "running"
        /\ osCommands = {}

\* C5: every update call that finishes reports a boolean; no failure of the flow
\* (release fetch, download, subprocess, stop(), reboot) reaches the caller as an
\* exception.
C5_NeverThrows ==
    \A c \in Calls : pc[c] = "done" => result[c] \in {"true", "false"}

(***************************************************************************)
(* The output specification: one update attempt whose subprocess is        *)
(* running; its output arrives cut into chunks in every way.               *)
(***************************************************************************)
\* updateStatus after the start step
StartedStatus ==
    setUpdateStatus(IdleStatus,
        [running |-> TRUE, progress |-> 5, description |-> "Updating...", error |-> JsFalse])

\* the state of call "a" once it awaits its subprocess
InitProcess ==
    /\ systemStatus = "updating"
    /\ updateStatus = StartedStatus
    /\ pc = [c \in Calls |-> IF c = "a" THEN "process" ELSE "idle"]
    /\ menderInstallDots = [c \in Calls |-> 0]
    /\ result = [c \in Calls |-> "none"]
    /\ log = [c \in Calls |-> IF c = "a" THEN <<"start", "download", "spawn">> ELSE <<>>]
    /\ lastError = [c \in Calls |-> "none"]
    /\ sawError = [c \in Calls |-> FALSE]
    /\ power = [o \in PowerOps |-> "idle"]
    /\ stopped = FALSE
    /\ osCommands = {}
    /\ out = <<>>
    /\ lastChunk = <<>>
    /\ before = [status |-> StartedStatus, dots |-> 0]
    /\ delivered = [s \in Streams |-> 0]
    /\ resetPc = "idle"
    /\ resetResult = <<>>
    /\ factoryResetDemoState = <<>>

\* a 'data' event, with the record of what was delivered
Deliver(c, stream, chunk, maxDots) ==
    /\ ScriptOutput(c, stream, chunk, maxDots)
    /\ out' = out \o chunk
    /\ lastChunk' = chunk
    /\ before' = [status |-> updateStatus, dots |-> menderInstallDots[c]]
    /\ UNCHANGED delivered

NextOutput ==
    \E chunk \in TextsUpTo(Atoms, MathMin(MaxChunkLen, MaxOutputLen - Len(out))) :
        \E stream \in {"stdout", "stderr"} : Deliver("a", stream, chunk, MaxOutputLen)

SpecOutput == InitProcess /\ [][NextOutput]_vars

(***************************************************************************)
(* Properties of the output specification.                                 *)
(***************************************************************************)
\* status and dots after the last chunk
After == [status |-> updateStatus, dots |-> menderInstallDots["a"]]

\* a line with the marker whose payload JSON.parse rejects
Malformed(line) == StartsWithMarker(line) /\ ~IsJson(Payload(line))

WellFormedLines(lines) == SelectSeq(lines, LAMBDA line : ~Malformed(line))

\* C6: a line that starts with the marker and has a payload that is not JSON changes
\* neither updateStatus nor the dot counter, does not fail the attempt, and the
\* other lines of the chunk have the effect they have without it.
C6_MalformedLineIgnored ==
    /\ After = HandleLines(before, WellFormedLines(Split(lastChunk)))
    /\ (\A i \in 1..Len(Split(lastChunk)) :
           Malformed(Split(lastChunk)[i]) \/ Split(lastChunk)[i] = <<>>) => After = before
    /\ pc["a"] = "process"
    /\ result["a"] = "none"

\* a chunk had a malformed line and then a dot, and the dot was counted
C6_Witness ==
    /\ lastChunk = <<Marker, Newline, Dot>>
    /\ out # lastChunk
    /\ menderInstallDots["a"] = before.dots + 1
    /\ updateStatus = [before.status EXCEPT !.progress = DotProgress(before.dots + 1)]

\* C7: a merge write sets the supplied fields to the supplied values and leaves the
\* other fields of {running, progress, description, error} as they were: the write
\* of a structured line, and the write of a dot line.
C7_MergeKeepsOtherFields ==
    /\ DOMAIN updateStatus = Fields
    /\ \A j \in DOMAIN JsonValue :
          lastChunk \in {<<Marker, j>>, <<Marker, j, Newline>>}
             => \A f \in Fields :
                   updateStatus[f] = IF f \in DOMAIN JsonValue[j] THEN JsonValue[j][f]
                                     ELSE before.status[f]
    /\ lastChunk \in {<<Dot>>, <<Dot, Newline>>}
          => \A f \in Fields \ {"progress"} : updateStatus[f] = before.status[f]

\* the line umbrel-update: {"progress":42} arrived when the script had reported an
\* error: progress is 42 and the other fields are as before
C7_Witness ==
    /\ lastChunk = <<Marker, JProgress>>
    /\ before.status = [running |-> TRUE, progress |-> 5, description |-> "Updating...",
                        error |-> "disk full"]
    /\ updateStatus = [running |-> TRUE, progress |-> 42, description |-> "Updating...",
                       error |-> "disk full"]

\* C9: the status and the dots after the chunks are those of the whole output
\* handled as one text, however the output was cut into chunks.
C9_ChunkingIrrelevant ==
    After = handleUpdateScriptOutput([status |-> StartedStatus, dots |-> 0], out)

(***************************************************************************)
(* The dot-progress specification: one update attempt whose subprocess     *)
(* prints dots and other text.                                             *)
(***************************************************************************)
DotAtoms == {Dot, Newline, NotJson}

NextDots ==
    \E stream \in {"stdout", "stderr"}, chunk \in TextsUpTo(DotAtoms, MaxDotChunkLen) :
        /\ ScriptOutput("a", stream, chunk, MaxDotLines)
        /\ lastChunk' = chunk
        /\ before' = [status |-> updateStatus, dots |-> menderInstallDots["a"]]
        /\ UNCHANGED <<out, delivered>>

SpecDots == InitProcess /\ [][NextDots]_vars

\* C8: after the k-th dot line of an attempt, progress is
\* min(95, floor(k * 90 / 70) + 5), between 5 and 95; a dot line changes progress
\* only and other lines do not change the counter.
C8_DotFormula ==
    LET k == menderInstallDots["a"]
    IN  /\ k >= 1 => updateStatus.progress = MathMin(95, ((k * 90) \div 70) + 5)
        /\ updateStatus.progress \in 5..95
        /\ updateStatus = [StartedStatus EXCEPT !.progress = updateStatus.progress]
        /\ k - before.dots = Cardinality({i \in 1..Len(Split(lastChunk)) :
                                             Split(lastChunk)[i] = <<Dot>>})

(***************************************************************************)
(* The reset specification: factoryReset and its reset procedure, the      *)
(* power operations and the migration, interleaved at their awaits.        *)
(***************************************************************************)
NextReset ==
    \/ FactoryResetStart
    \/ \E valid \in BOOLEAN : PasswordValidated(valid)
    \/ FactoryResetReturned
    \/ ResetProgress
    \/ \E o \in PowerOps : PowerStart(o)
    \/ \E o \in PowerOps, ok \in BOOLEAN : PowerStopped(o, ok)
    \/ \E o \in PowerOps, ok \in BOOLEAN : PowerDone(o, ok)
    \/ \E status \in SystemStatus : setSystemStatus(status)

SpecReset == Init /\ [][NextReset]_vars


(***************************************************************************)
(* Properties of the reset specification.                                  *)
(***************************************************************************)
\* C10: a factoryReset whose password fails validation ends UNAUTHORIZED and changes
\* nothing: the reset is not started, the snapshot of getFactoryResetStatus,
\* systemStatus and updateStatus are as before.  The reset is started only by the
\* step of a successful validation, and that step returns the snapshot while the
\* reset is still running.
C10_UnauthorizedChangesNothing ==
    [][/\ (resetPc = "validatePassword" /\ resetPc' = "UNAUTHORIZED")
            => /\ getFactoryResetStatus' = getFactoryResetStatus
               /\ UNCHANGED <<systemStatus, updateStatus, resetResult, envVars>>
       /\ (resetPc' # "returned" /\ getFactoryResetStatus = <<>>)
            => getFactoryResetStatus' = <<>>
       /\ (resetPc = "validatePassword" /\ resetPc' = "returned")
            => /\ resetResult' = getFactoryResetStatus'
               /\ resetResult' # <<>>
               /\ resetResult'[1] < MaxResetSteps]_vars

\* a factoryReset has ended UNAUTHORIZED and no reset has been started
C10_Witness ==
    /\ resetPc = "UNAUTHORIZED"
    /\ getFactoryResetStatus = <<>>
    /\ resetResult = <<>>

\* C11: shutdown (restart) sets systemStatus to 'shutting-down' ('restarting') in
\* its first step, before any await; its power command is issued only in the step
\* in which its stop() completes, never earlier; it returns true only after the
\* command was issued; and no step of the operation after the first writes
\* systemStatus, so the operation never sets it back to 'running'.
C11_PowerOrder ==
    /\ [](\A o \in PowerOps :
            /\ power[o] \in {"idle", "stop"} => PowerCommand(o) \notin osCommands
            /\ power[o] \in {"command", "true"} => stopped /\ PowerCommand(o) \in osCommands)
    /\ [][\A o \in PowerOps :
            /\ (power[o] = "idle" /\ power'[o] # "idle")
                  => /\ systemStatus' = PowerStatus(o)
                     /\ power'[o] = "stop"
                     /\ UNCHANGED <<stopped, osCommands>>
            /\ (PowerCommand(o) \notin osCommands /\ PowerCommand(o) \in osCommands')
                  => /\ power[o] = "stop"
                     /\ power'[o] = "command"
                     /\ stopped'
            /\ power'[o] = "true" => power[o] \in {"command", "true"}
            /\ (power[o] # "idle" /\ power'[o] # power[o]) => systemStatus' = systemStatus]_vars

\* a shutdown has returned true: stop() completed, the shutdown command was issued
\* and systemStatus is 'shutting-down'
C11_Witness ==
    /\ power["shutdown"] = "true"
    /\ stopped
    /\ "shutdown" \in osCommands
    /\ systemStatus = "shutting-down"

(***************************************************************************)
(* The attempt specification: the requests of update arrive one at a time. *)
(***************************************************************************)
NextAttempt ==
    \/ UpdateStart("a")
    \/ \E outcome \in {"failed", "no script", "script"} : ReleaseFetched("a", outcome)
    \/ \E ok \in BOOLEAN : ScriptFetched("a", ok)
    \/ \E ok \in BOOLEAN : ScriptRead("a", ok)
    \/ \E stream \in {"stdout", "stderr"}, chunk \in AttemptChunks :
          ScriptOutput("a", stream, chunk, MaxDots) /\ UNCHANGED outVars
    \/ \E code \in {0, 1} : ProcessExit("a", code)
    \/ \E ok \in BOOLEAN : UpdateStopped("a", ok)
    \/ \E ok \in BOOLEAN : UpdateRebooted("a", ok)
    \/ UpdateReturned("a")

SpecAttempt == Init /\ [][NextAttempt]_vars

(***************************************************************************)
(* The lifecycle specification: one update request at a time, the power    *)
(* operations and the migration, interleaved at their awaits.              *)
(***************************************************************************)
NextLifecycle ==
    \/ NextAttempt
    \/ \E o \in PowerOps : PowerStart(o)
    \/ \E o \in PowerOps, ok \in BOOLEAN : PowerStopped(o, ok)
    \/ \E o \in PowerOps, ok \in BOOLEAN : PowerDone(o, ok)
    \/ \E status \in SystemStatus : setSystemStatus(status)

SpecLifecycle == Init /\ [][NextLifecycle]_vars

(***************************************************************************)
(* Properties of the lifecycle specification.                              *)
(***************************************************************************)
\* C12: systemStatus is the status of the lifecycle transition requested last: when
\* it is 'shutting-down', 'restarting' or 'migrating' while an update attempt is
\* in flight (the request came after the attempt's start, which had set
\* 'updating'), no later step of that attempt overwrites it.
C12_LatestTransitionKept ==
    [][\A c \in Calls :
          (/\ pc[c] \notin {"idle", "done"}
           /\ pc'[c] # pc[c]
           /\ systemStatus \in {"shutting-down", "restarting", "migrating"})
             => systemStatus' = systemStatus]_vars

(***************************************************************************)
(* Properties of the attempt specification.                                *)
(***************************************************************************)
\* C13: in every reachable state updateStatus.progress is an integer between 0 and
\* 100, whatever the update script prints.
C13_ProgressRange ==
    updateStatus.progress \in 0..100

\* C14: while an update attempt is in flight (started, and neither returned nor
\* past the issue of the reboot), no other update call starts, so no second call
\* writes systemStatus or updateStatus.
C14_SingleWriter ==
    [][\A c, d \in Calls :
          (c # d /\ pc[c] \in {"getLatestRelease", "fetch", "text", "process", "stop"})
             => ~(pc[d] = "idle" /\ pc'[d] # "idle")]_vars

\* C16: at every await of the running operations, systemStatus is 'updating' if and
\* only if updateStatus.running is true.
C16_UpdatingIffRunning ==
    (systemStatus = "updating") <=> (updateStatus.running = TRUE)

\* C18: once an update attempt has finished without the reboot command having been
\* issued, and nothing else is in progress, systemStatus is 'running' and
\* updateStatus.running is false.
C18_FinishedMeansRunning ==
    (/\ pc["a"] = "done"
     /\ "reboot issued" \notin Events("a")
     /\ \A o \in PowerOps : power[o] = "idle")
        => systemStatus = "running" /\ updateStatus.running = FALSE

\* C19: from the start step of an attempt until it fails or issues the reboot, no
\* step lowers updateStatus.progress.
C19_ProgressMonotone ==
    [][(pc["a"] \in {"getLatestRelease", "fetch", "text", "process"}
        /\ result'["a"] # "false")
          => updateStatus'.progress >= updateStatus.progress]_vars

(***************************************************************************)
(* The streams specification: one update attempt whose subprocess prints   *)
(* dots and other text on stdout and on stderr, in every interleaving.     *)
(***************************************************************************)
\* the lines of a chunk that are '.'
DotLines(chunk) == Cardinality({i \in 1..Len(Split(chunk)) : Split(chunk)[i] = <<Dot>>})

NextStreams ==
    \E stream \in Streams, chunk \in TextsUpTo(DotAtoms, MaxDotChunkLen) :
        /\ delivered[stream] + DotLines(chunk) <= MaxStreamDots
        /\ ScriptOutput("a", stream, chunk, MaxStreamDots)
        /\ delivered' = [delivered EXCEPT ![stream] = @ + DotLines(chunk)]
        /\ lastChunk' = chunk
        /\ before' = [status |-> updateStatus, dots |-> menderInstallDots["a"]]
        /\ UNCHANGED out

SpecStreams == InitProcess /\ [][NextStreams]_vars

\* C15: stdout and stderr feed one dot counter and one updateStatus: the counter is
\* the number of '.' lines delivered on both streams together, and the progress is
\* the progress of that number, on whichever stream the lines arrived and however
\* the chunks of the two streams interleave.
C15_StreamsAlike ==
    LET total == delivered["stdout"] + delivered["stderr"]
    IN  /\ menderInstallDots["a"] = total
        /\ updateStatus.progress = IF total = 0 THEN 5 ELSE DotProgress(total)
        /\ updateStatus = [StartedStatus EXCEPT !.progress = updateStatus.progress]

\* dots have arrived on both streams, two on stdout and one on stderr, and three
\* are counted
C15_Witness ==
    /\ delivered = [s \in Streams |-> IF s = "stdout" THEN 2 ELSE 1]
    /\ menderInstallDots["a"] = 3
    /\ updateStatus.progress = DotProgress(3)

\* C17: the failure handling of an attempt is one step for the queries status and
\* updateStatus: no observable state holds the record of resetUpdateStatus()
\* (running false, error false) once an attempt has started, none holds
\* systemStatus 'updating' together with the reset record, none holds a record
\* with a field missing, and the first state after the failure is the final one.
C17_FailureAtomic ==
    /\ DOMAIN updateStatus = Fields
    /\ updateStatus = IdleStatus => pc["a"] = "idle" /\ systemStatus = "running"
    /\ ~(/\ systemStatus = "updating"
         /\ updateStatus.running = FALSE
         /\ updateStatus.progress = 0
         /\ updateStatus.description = "")
    /\ "reset" \in Events("a")
          => /\ updateStatus = [IdleStatus EXCEPT !.error = updateStatus.error]
             /\ Truthy(updateStatus.error)
             /\ systemStatus = "running"
             /\ pc["a"] = "done"

\* an attempt has failed with the generic error; the queries see the final record
\* and 'running'
C17_Witness ==
    /\ "reset" \in Events("a")
    /\ updateStatus = [IdleStatus EXCEPT !.error = "Update failed"]
    /\ systemStatus = "running"

(***************************************************************************)
(* The attempt specification with fairness: every promise the attempt      *)
(* awaits settles (the release fetch, the download, the subprocess, stop() *)
(* and reboot()).                                                          *)
(***************************************************************************)
Settles ==
    /\ WF_vars(\E outcome \in {"failed", "no script", "script"} : ReleaseFetched("a", outcome))
    /\ WF_vars(\E ok \in BOOLEAN : ScriptFetched("a", ok))
    /\ WF_vars(\E ok \in BOOLEAN : ScriptRead("a", ok))
    /\ WF_vars(\E code \in {0, 1} : ProcessExit("a", code))
    /\ WF_vars(\E ok \in BOOLEAN : UpdateStopped("a", ok))
    /\ WF_vars(\E ok \in BOOLEAN : UpdateRebooted("a", ok))

SpecLive == Init /\ [][NextAttempt]_vars /\ Settles

\* the attempt has issued the reboot command
RebootIssued == "reboot issued" \in Events("a")

\* the failure outcome: 'running', not running, an error that is not false
FailureRecorded ==
    /\ systemStatus = "running"
    /\ updateStatus.running = FALSE
    /\ updateStatus.error # JsFalse

\* a started attempt ends
AttemptEnds == (pc["a"] = "getLatestRelease") ~> (pc["a"] = "done")

\* C20: when every awaited promise settles, every started update attempt ends, and
\* it ends in exactly one of two outcomes: the reboot command has been issued, or
\* systemStatus is 'running' with updateStatus.running false and an error that is
\* not false.
C20_Terminates ==
    /\ AttemptEnds
    /\ [](pc["a"] = "done" => (RebootIssued /\ ~FailureRecorded) \/ (~RebootIssued /\ FailureRecorded))

====
